---- MODULE Spec2Model ----
(***************************************************************************)
(* wx: the refresh / redraw core of src/src/app.rs.                        *)
(*                                                                         *)
(* Three threads of control:                                               *)
(*   - the main thread running run_app's loop (the R_ actions),            *)
(*   - the web request worker spawned by start_workers (the F_ actions),   *)
(*   - the TUI event worker spawned by start_workers (the I_ actions).     *)
(* They share the Arc<Mutex<Option<WeatherData>>> cell (lock,    *)
(* store) and the mpsc channel of AppEvent (queue, live senders).          *)
(***************************************************************************)
EXTENDS Integers, Sequences, FiniteSets, TLC

\* ---------------------------------------------------------------- bounds
\* Cycles of the web request worker that the model follows.
MaxCycles == 2
\* Terminal events the TUI event worker reads.
MaxInputs == 2
\* Loading passes of run_app that the model follows.
MaxLoading == 2

\* ------------------------------------------------------------- data model
\* WeatherData is a 4-tuple: (Observation, Station, Alerts, Forecast).
NumFields == 4

\* One member of the tuple: fetched in cycle `at`, or a Default::default()
\* value, or the payload of None (nothing stored).
Fetched(c) == [src |-> "fetched", at |-> c]
DefaultVal == [src |-> "default", at |-> 0]
\* observation::Properties::default() stamps the value with Local::now().
DefaultObs(c) == [src |-> "default", at |-> c]
NoVal == [src |-> "none", at |-> 0]

\* No resize is waiting to be rendered.
NoResize == [set |-> FALSE]

\* Mutex::new(None)
NoneStore == [some |-> FALSE, val |-> [k \in 1..NumFields |-> NoVal]]

\* The results of the five requests of one get_weather_data call, in call
\* order: observation, station, alerts, gridpoints, forecast (TRUE = Ok).
AllOk == <<TRUE, TRUE, TRUE, TRUE, TRUE>>
AllFail == <<FALSE, FALSE, FALSE, FALSE, FALSE>>
FetchResults == {AllOk, AllFail}

\* main.rs get_weather_data: every request is unwrap_or_default().  A default
\* Gridpoints has an empty forecast_url, which reqwest cannot parse, so the
\* forecast request then fails as well.
get_weather_data(c, r) ==
    << IF r[1] THEN Fetched(c) ELSE DefaultObs(c),
       IF r[2] THEN Fetched(c) ELSE DefaultVal,
       IF r[3] THEN Fetched(c) ELSE DefaultVal,
       IF r[4] /\ r[5] THEN Fetched(c) ELSE DefaultVal >>

\* The get_data functions run_app may be handed: main.rs passes
\* get_weather_data; "panic_on_err" is the unwrap() variant that panics on a
\* failed request.
GetDataFns == {"get_weather_data", "panic_on_err"}

VARIABLES
    get_data,         \* run_app's get_data parameter
    rpc,              \* main thread: position in run_app
    loading_counter,  \* run_app's loading_counter
    lock,             \* the Mutex: "free", or the thread holding the guard
    store,            \* the Option<WeatherData> inside the Mutex
    queue,            \* the mpsc channel's buffered AppEvents
    fpc,              \* web request worker: position in its loop
    cycle,            \* web request worker: number of the current cycle
    data,             \* web request worker: the local `data`
    wpos,             \* web request worker: members already moved by replace
    ipc,              \* TUI event worker: "read" or "dead"
    inputs,           \* TUI event worker: events read so far
    written,          \* history: values whose replace() has completed
    lastRender,       \* history: argument of the latest terminal.draw
    exitSent,         \* history: the TUI event worker has sent Exit
    readyDraws,       \* history: number of terminal.draw(ui) calls
    redrawsRecv,      \* history: Redraw events taken by rx.recv()
    lastFetch,        \* history: request results of the latest get_data call
    redrawsSent,      \* history: Redraw events sent by the web request worker
    latest,           \* history: value of the latest completed replace()
    resizeSnap,       \* history: the cell when a resize found run_app waiting
    loadingSince      \* history: Loading draws made after the first completed
                      \* write, until the first pass in Ready has ended

vars == << get_data, rpc, loading_counter, lock, store, queue, fpc,
           cycle, data, wpos, ipc, inputs, written, lastRender,
           exitSent, readyDraws, redrawsRecv, lastFetch, redrawsSent, latest,
           resizeSnap, loadingSince >>

mainVars == << rpc, loading_counter, lastRender, readyDraws, redrawsRecv,
              loadingSince >>
fetchVars == << fpc, cycle, data, wpos, written, lastFetch, redrawsSent,
               latest >>
inputVars == << ipc, inputs, exitSent >>

\* The main thread has panicked: in ui (app.rs:45), in recv().unwrap()
\* (app.rs:47) or in panic!("Thread crashed") (app.rs:60).
Panicked == rpc \in {"panic_draw", "panic_recv", "panic_try_recv"}
\* run_app has returned or unwound.  main.rs:93-110 then restores the terminal
\* and the process exits, which ends both workers: the receiver is dropped and
\* the cell is never read again, so the model stops the workers here.
Terminated == rpc \in {"returned_ok", "returned_err"} \/ Panicked
\* run_app ended fatally: an Err result or a panic of the main thread.
Fatal == rpc = "returned_err" \/ Panicked

\* Live Sender handles of the channel: web_tx and event_tx (tx itself is
\* dropped when start_workers returns).
Senders == (IF fpc = "dead" THEN 0 ELSE 1) + (IF ipc = "dead" THEN 0 ELSE 1)
Disconnected == Senders = 0

Init ==
    /\ get_data \in GetDataFns
    /\ rpc = "lock"
    /\ loading_counter = 0
    /\ lock = "free"
    /\ store = NoneStore
    /\ queue = << >>
    /\ fpc = "fetch"
    /\ cycle = 1
    /\ data = [k \in 1..NumFields |-> NoVal]
    /\ wpos = 0
    /\ ipc = "read"
    /\ inputs = 0
    /\ written = {}
    /\ lastRender = [kind |-> "none"]
    /\ exitSent = FALSE
    /\ readyDraws = 0
    /\ redrawsRecv = 0
    /\ lastFetch = << >>
    /\ redrawsSent = 0
    /\ latest = [k \in 1..NumFields |-> NoVal]
    /\ resizeSnap = NoResize
    /\ loadingSince = 0

\* ------------------------------------------------------- main thread
\* R_Lock with the match on the Option left out: the Ready branch is taken
\* whether or not the cell holds a value.
R_Lock_NoMatch ==
    /\ rpc = "lock"
    /\ lock = "free"
    /\ lock' = "main"
    /\ rpc' = "draw_ready"
    /\ UNCHANGED << get_data, resizeSnap, loading_counter, store, queue,
                    lastRender, readyDraws, redrawsRecv, loadingSince >>
    /\ UNCHANGED fetchVars
    /\ UNCHANGED inputVars

\* app.rs:43-44,51: weather_data.lock().unwrap(), then the match on the
\* Option.  Only the main thread can poison the Mutex, so unwrap succeeds.
R_Lock ==
    /\ rpc = "lock"
    /\ lock = "free"
    /\ store.some \/ loading_counter < MaxLoading
    /\ lock' = "main"
    /\ rpc' = IF store.some THEN "draw_ready" ELSE "drop"
    /\ UNCHANGED << get_data, resizeSnap, loading_counter, store, queue,
                    lastRender, readyDraws, redrawsRecv, loadingSince >>
    /\ UNCHANGED fetchVars
    /\ UNCHANGED inputVars

\* R_DrawReady that moves the value out of the cell (Option::take) to
\* draw it, leaving None behind.
R_DrawReady_TakesValue ==
    /\ rpc = "draw_ready"
    /\ lastRender' = [kind |-> "ready", val |-> store.val]
    /\ readyDraws' = readyDraws + 1
    /\ store' = NoneStore
    /\ \E res \in {"ok", "err", "panic"} :
         /\ rpc' = CASE res = "ok" -> "recv"
                     [] res = "err" -> "returned_err"
                     [] OTHER -> "panic_draw"
         /\ lock' = IF res = "ok" THEN lock ELSE "free"
    /\ resizeSnap' = NoResize
    /\ UNCHANGED << get_data, loading_counter, queue, redrawsRecv,
                    loadingSince >>
    /\ UNCHANGED fetchVars
    /\ UNCHANGED inputVars

\* R_DrawReady that draws from a copy made at the first render in Ready
\* instead of reading the cell.
R_DrawReady_CachedCopy ==
    /\ rpc = "draw_ready"
    /\ lastRender' = IF lastRender.kind = "ready"
                     THEN lastRender
                     ELSE [kind |-> "ready", val |-> store.val]
    /\ readyDraws' = readyDraws + 1
    /\ \E res \in {"ok", "err", "panic"} :
         /\ rpc' = CASE res = "ok" -> "recv"
                     [] res = "err" -> "returned_err"
                     [] OTHER -> "panic_draw"
         /\ lock' = IF res = "ok" THEN lock ELSE "free"
    /\ resizeSnap' = NoResize
    /\ UNCHANGED << get_data, loading_counter, store, queue, redrawsRecv,
                    loadingSince >>
    /\ UNCHANGED fetchVars
    /\ UNCHANGED inputVars

\* app.rs:45: terminal.draw(ui(..))? with the guard `data` alive.  ui reads
\* the tuple in place.  draw may return an io::Error (`?` returns it) and ui
\* may panic (unwrap of a timestamp parse); both drop the guard.
R_DrawReady ==
    /\ rpc = "draw_ready"
    /\ lastRender' = [kind |-> "ready", val |-> store.val]
    /\ readyDraws' = readyDraws + 1
    /\ \E res \in {"ok", "err", "panic"} :
         /\ rpc' = CASE res = "ok" -> "recv"
                     [] res = "err" -> "returned_err"
                     [] OTHER -> "panic_draw"
         /\ lock' = IF res = "ok" THEN lock ELSE "free"
    /\ resizeSnap' = NoResize
    /\ UNCHANGED << get_data, loading_counter, store, queue, redrawsRecv,
                    loadingSince >>
    /\ UNCHANGED fetchVars
    /\ UNCHANGED inputVars

\* R_Recv with the arms of the match exchanged: Redraw returns, Exit loops.
R_Recv_ArmsSwapped ==
    /\ rpc = "recv"
    /\ queue # << >> \/ Disconnected
    /\ IF queue # << >>
       THEN /\ queue' = Tail(queue)
            /\ rpc' = IF Head(queue) = "Redraw" THEN "returned_ok" ELSE "lock"
       ELSE /\ rpc' = "panic_recv"
            /\ UNCHANGED queue
    /\ redrawsRecv' = IF queue # << >> /\ Head(queue) = "Redraw"
                      THEN redrawsRecv + 1 ELSE redrawsRecv
    /\ lock' = "free"
    /\ loadingSince' = 0
    /\ UNCHANGED << get_data, resizeSnap, loading_counter, store, lastRender,
                    readyDraws >>
    /\ UNCHANGED fetchVars
    /\ UNCHANGED inputVars

\* R_Recv that drains every Redraw at the head of the channel before it
\* loops: Redraws queued back-to-back are answered by one render.
R_Recv_CoalesceRedraws ==
    /\ rpc = "recv"
    /\ queue # << >> \/ Disconnected
    /\ IF queue # << >>
       THEN LET n == Cardinality({k \in 1..Len(queue) :
                        \A i \in 1..k : queue[i] = "Redraw"})
            IN  IF n = 0
                THEN /\ queue' = Tail(queue)
                     /\ rpc' = "returned_ok"
                     /\ UNCHANGED redrawsRecv
                ELSE /\ queue' = SubSeq(queue, n + 1, Len(queue))
                     /\ rpc' = "lock"
                     /\ redrawsRecv' = redrawsRecv + n
       ELSE /\ rpc' = "panic_recv"
            /\ UNCHANGED << queue, redrawsRecv >>
    /\ lock' = "free"
    /\ loadingSince' = 0
    /\ UNCHANGED << get_data, resizeSnap, loading_counter, store, lastRender,
                    readyDraws >>
    /\ UNCHANGED fetchVars
    /\ UNCHANGED inputVars

\* R_Recv whose Exit arm loops like the Redraw arm instead of returning.
R_Recv_ExitLoops ==
    /\ rpc = "recv"
    /\ queue # << >> \/ Disconnected
    /\ IF queue # << >>
       THEN /\ queue' = Tail(queue)
            /\ rpc' = "lock"
       ELSE /\ rpc' = "panic_recv"
            /\ UNCHANGED queue
    /\ redrawsRecv' = IF queue # << >> /\ Head(queue) = "Redraw"
                      THEN redrawsRecv + 1 ELSE redrawsRecv
    /\ lock' = "free"
    /\ loadingSince' = 0
    /\ UNCHANGED << get_data, resizeSnap, loading_counter, store, lastRender,
                    readyDraws >>
    /\ UNCHANGED fetchVars
    /\ UNCHANGED inputVars

\* app.rs:47-50 and the end of the loop body: rx.recv().unwrap() blocks until
\* an event is buffered or every Sender is gone.  The guard `data` is dropped
\* when the iteration ends, when run_app returns, or while unwinding.
R_Recv ==
    /\ rpc = "recv"
    /\ queue # << >> \/ Disconnected
    /\ IF queue # << >>
       THEN /\ queue' = Tail(queue)
            /\ rpc' = IF Head(queue) = "Exit" THEN "returned_ok" ELSE "lock"
       ELSE /\ rpc' = "panic_recv"
            /\ UNCHANGED queue
    /\ redrawsRecv' = IF queue # << >> /\ Head(queue) = "Redraw"
                      THEN redrawsRecv + 1 ELSE redrawsRecv
    /\ lock' = "free"
    /\ loadingSince' = 0
    /\ UNCHANGED << get_data, resizeSnap, loading_counter, store, lastRender,
                    readyDraws >>
    /\ UNCHANGED fetchVars
    /\ UNCHANGED inputVars

\* R_Drop without the drop: the guard stays alive through the Loading pass.
R_Drop_GuardKept ==
    /\ rpc = "drop"
    /\ lock' = lock
    /\ rpc' = "draw_loading"
    /\ UNCHANGED << get_data, resizeSnap, loading_counter, store, queue,
                    lastRender, readyDraws, redrawsRecv, loadingSince >>
    /\ UNCHANGED fetchVars
    /\ UNCHANGED inputVars

\* app.rs:52: drop(data)
R_Drop ==
    /\ rpc = "drop"
    /\ lock' = "free"
    /\ rpc' = "draw_loading"
    /\ UNCHANGED << get_data, resizeSnap, loading_counter, store, queue,
                    lastRender, readyDraws, redrawsRecv, loadingSince >>
    /\ UNCHANGED fetchVars
    /\ UNCHANGED inputVars

\* R_DrawLoading that counts the pass before it draws: the first render
\* is given tick 1.
R_DrawLoading_CountsFirst ==
    /\ rpc = "draw_loading"
    /\ lastRender' = [kind |-> "loading", tick |-> loading_counter + 1]
    /\ loadingSince' = IF written # {} THEN loadingSince + 1 ELSE loadingSince
    /\ \E res \in {"ok", "err"} :
         /\ loading_counter' = loading_counter + 1
         /\ rpc' = IF res = "ok" THEN "try_recv" ELSE "returned_err"
    /\ UNCHANGED << get_data, resizeSnap, lock, store, queue, readyDraws,
                    redrawsRecv >>
    /\ UNCHANGED fetchVars
    /\ UNCHANGED inputVars

\* app.rs:54-56: terminal.draw(loading(loading_counter))?, then
\* loading_counter += 1 and the 100ms sleep.
R_DrawLoading ==
    /\ rpc = "draw_loading"
    /\ lastRender' = [kind |-> "loading", tick |-> loading_counter]
    /\ loadingSince' = IF written # {} THEN loadingSince + 1 ELSE loadingSince
    /\ \E res \in {"ok", "err"} :
         IF res = "ok"
         THEN /\ loading_counter' = loading_counter + 1
              /\ rpc' = "try_recv"
         ELSE /\ rpc' = "returned_err"
              /\ UNCHANGED loading_counter
    /\ UNCHANGED << get_data, resizeSnap, lock, store, queue, readyDraws,
                    redrawsRecv >>
    /\ UNCHANGED fetchVars
    /\ UNCHANGED inputVars

\* R_TryRecv that goes back to the cell only on a Redraw: an empty poll
\* starts the next Loading draw directly.
R_TryRecv_RecheckOnRedraw ==
    /\ rpc = "try_recv"
    /\ IF queue # << >>
       THEN /\ queue' = Tail(queue)
            /\ rpc' = IF Head(queue) = "Exit" THEN "returned_ok" ELSE "lock"
       ELSE /\ rpc' = IF Disconnected THEN "panic_try_recv"
                      ELSE IF loading_counter < MaxLoading THEN "draw_loading"
                      ELSE "lock"
            /\ UNCHANGED queue
    /\ UNCHANGED << get_data, resizeSnap, loading_counter, lock, store,
                    lastRender, readyDraws, redrawsRecv, loadingSince >>
    /\ UNCHANGED fetchVars
    /\ UNCHANGED inputVars

\* R_TryRecv with `Ok(_) | Err(Empty) => ()`: Exit is handled like Redraw.
R_TryRecv_ExitAsRedraw ==
    /\ rpc = "try_recv"
    /\ IF queue # << >>
       THEN /\ queue' = Tail(queue)
            /\ rpc' = "lock"
       ELSE /\ rpc' = IF Disconnected THEN "panic_try_recv" ELSE "lock"
            /\ UNCHANGED queue
    /\ UNCHANGED << get_data, resizeSnap, loading_counter, lock, store,
                    lastRender, readyDraws, redrawsRecv, loadingSince >>
    /\ UNCHANGED fetchVars
    /\ UNCHANGED inputVars

\* R_TryRecv with `Err(_) => ()`: a disconnected channel is handled like an
\* empty one.
R_TryRecv_ClosedAsEmpty ==
    /\ rpc = "try_recv"
    /\ IF queue # << >>
       THEN /\ queue' = Tail(queue)
            /\ rpc' = IF Head(queue) = "Exit" THEN "returned_ok" ELSE "lock"
       ELSE /\ rpc' = "lock"
            /\ UNCHANGED queue
    /\ UNCHANGED << get_data, resizeSnap, loading_counter, lock, store,
                    lastRender, readyDraws, redrawsRecv, loadingSince >>
    /\ UNCHANGED fetchVars
    /\ UNCHANGED inputVars

\* app.rs:57-61: rx.try_recv()
R_TryRecv ==
    /\ rpc = "try_recv"
    /\ IF queue # << >>
       THEN /\ queue' = Tail(queue)
            /\ rpc' = IF Head(queue) = "Exit" THEN "returned_ok" ELSE "lock"
       ELSE /\ rpc' = IF Disconnected THEN "panic_try_recv" ELSE "lock"
            /\ UNCHANGED queue
    /\ UNCHANGED << get_data, resizeSnap, loading_counter, lock, store,
                    lastRender, readyDraws, redrawsRecv, loadingSince >>
    /\ UNCHANGED fetchVars
    /\ UNCHANGED inputVars

\* ------------------------------------------------ web request worker
\* F_Fetch with unwrap() in place of unwrap_or_default(): a failed request
\* panics the worker.
F_Fetch_UnwrapOnFailure ==
    /\ fpc = "fetch"
    /\ ~Terminated
    /\ \E r \in FetchResults :
         /\ get_data = "panic_on_err" => r = AllOk
         /\ lastFetch' = r
         /\ IF r = AllOk
            THEN data' = get_weather_data(cycle, r) /\ fpc' = "lock"
            ELSE data' = data /\ fpc' = "dead"
    /\ UNCHANGED << get_data, resizeSnap, lock, store, queue, cycle,
                    wpos, written, redrawsSent, latest >>
    /\ UNCHANGED mainVars
    /\ UNCHANGED inputVars

\* F_Fetch with `if let Ok(data) = ..`: a failed cycle goes straight to the
\* sleep, without replace() and without send().
F_Fetch_SkipOnFailure ==
    /\ fpc = "fetch"
    /\ ~Terminated
    /\ \E r \in FetchResults :
         /\ get_data = "panic_on_err" => r = AllOk
         /\ lastFetch' = r
         /\ IF r = AllOk
            THEN data' = get_weather_data(cycle, r) /\ fpc' = "lock"
            ELSE data' = data /\ fpc' = "sleep"
    /\ UNCHANGED << get_data, resizeSnap, lock, store, queue, cycle,
                    wpos, written, redrawsSent, latest >>
    /\ UNCHANGED mainVars
    /\ UNCHANGED inputVars

\* app.rs:82: get_data(&station) returns.
F_Fetch ==
    /\ fpc = "fetch"
    /\ ~Terminated
    /\ \E r \in FetchResults :
         /\ get_data = "panic_on_err" => r = AllOk
         /\ data' = get_weather_data(cycle, r)
         /\ lastFetch' = r
    /\ fpc' = "lock"
    /\ UNCHANGED << get_data, resizeSnap, lock, store, queue, cycle,
                    wpos, written, redrawsSent, latest >>
    /\ UNCHANGED mainVars
    /\ UNCHANGED inputVars

\* The fail-fast get_data: a failed request panics the worker thread, which
\* drops web_tx.
F_FetchPanic ==
    /\ fpc = "fetch"
    /\ ~Terminated
    /\ get_data = "panic_on_err"
    /\ fpc' = "dead"
    /\ UNCHANGED << get_data, resizeSnap, lock, store, queue, cycle,
                    data, wpos, written, lastFetch, redrawsSent, latest >>
    /\ UNCHANGED mainVars
    /\ UNCHANGED inputVars

\* F_Lock writing through the Arc without waiting for the Mutex.
F_Lock_NoWait ==
    /\ fpc = "lock"
    /\ ~Terminated
    /\ fpc' = "replace"
    /\ lock' = IF lock = "free" THEN "fetch" ELSE lock
    /\ wpos' = 0
    /\ UNCHANGED << get_data, resizeSnap, store, queue, cycle, data,
                    written, lastFetch, redrawsSent, latest >>
    /\ UNCHANGED mainVars
    /\ UNCHANGED inputVars

\* app.rs:83: weather_data.lock().unwrap() -- blocks while the guard is held
\* elsewhere.  The Mutex is poisoned only by a panic of the main thread, after
\* which the worker no longer runs, so unwrap succeeds.
F_Lock ==
    /\ fpc = "lock"
    /\ ~Terminated
    /\ lock = "free"
    /\ fpc' = "replace"
    /\ lock' = "fetch"
    /\ wpos' = 0
    /\ UNCHANGED << get_data, resizeSnap, store, queue, cycle, data,
                    written, lastFetch, redrawsSent, latest >>
    /\ UNCHANGED mainVars
    /\ UNCHANGED inputVars

\* F_Replace that stores None when every request of the cycle failed,
\* instead of the placeholder tuple.
F_Replace_NoneOnFailure ==
    /\ fpc = "replace"
    /\ ~Terminated
    /\ wpos < NumFields
    /\ IF lastFetch = AllFail
       THEN /\ store' = NoneStore
            /\ wpos' = NumFields
       ELSE /\ store' = [some |-> TRUE,
                         val |-> [store.val EXCEPT
                                    ![wpos + 1] = data[wpos + 1]]]
            /\ wpos' = wpos + 1
    /\ UNCHANGED << get_data, resizeSnap, lock, queue, fpc, cycle,
                    data, written, lastFetch, redrawsSent, latest >>
    /\ UNCHANGED mainVars
    /\ UNCHANGED inputVars

\* app.rs:83: .replace(data) moves Some(data) into the cell, one member of
\* the tuple at a time.
F_Replace ==
    /\ fpc = "replace"
    /\ ~Terminated
    /\ wpos < NumFields
    /\ store' = [some |-> TRUE,
                 val |-> [store.val EXCEPT ![wpos + 1] = data[wpos + 1]]]
    /\ wpos' = wpos + 1
    /\ UNCHANGED << get_data, resizeSnap, lock, queue, fpc, cycle,
                    data, written, lastFetch, redrawsSent, latest >>
    /\ UNCHANGED mainVars
    /\ UNCHANGED inputVars

\* app.rs:83: end of the statement, the temporary guard is dropped.
F_Unlock ==
    /\ fpc = "replace"
    /\ ~Terminated
    /\ wpos = NumFields
    /\ lock' = "free"
    /\ written' = written \cup {data}
    /\ latest' = data
    /\ fpc' = "send"
    /\ UNCHANGED << get_data, resizeSnap, store, queue, cycle, data,
                    wpos, lastFetch, redrawsSent >>
    /\ UNCHANGED mainVars
    /\ UNCHANGED inputVars

\* app.rs:84: _ = web_tx.send(AppEvent::Redraw)
F_Send ==
    /\ fpc = "send"
    /\ ~Terminated
    /\ queue' = Append(queue, "Redraw")
    /\ redrawsSent' = redrawsSent + 1
    /\ fpc' = "sleep"
    /\ UNCHANGED << get_data, resizeSnap, lock, store, cycle, data,
                    wpos, written, lastFetch, latest >>
    /\ UNCHANGED mainVars
    /\ UNCHANGED inputVars

\* app.rs:85: thread::sleep(Duration::from_secs(10)), then the next cycle.
F_Sleep ==
    /\ fpc = "sleep"
    /\ ~Terminated
    /\ cycle < MaxCycles
    /\ cycle' = cycle + 1
    /\ fpc' = "fetch"
    /\ UNCHANGED << get_data, resizeSnap, lock, store, queue, data,
                    wpos, written, lastFetch, redrawsSent, latest >>
    /\ UNCHANGED mainVars
    /\ UNCHANGED inputVars

\* ---------------------------------------------------- TUI event worker
\* Translate whose key arm does not look at the key code: every key press
\* sends Exit.
Translate_AnyKeyExits(ev) ==
    CASE ev \in {"key_q", "key_other"} -> "Exit"
      [] ev = "resize" -> "Redraw"
      [] OTHER -> ""

\* The event the worker sends for one crossterm event, "" for none.
\* app.rs:92-101.
Translate(ev) ==
    CASE ev = "key_q" -> "Exit"
      [] ev = "resize" -> "Redraw"
      [] OTHER -> ""

\* I_Event where a resize also cuts the Fetch Worker's sleep short, so
\* that a resize starts a fetch.
I_Event_ResizeRefetches(ev) ==
    /\ ipc = "read"
    /\ ~Terminated
    /\ inputs < MaxInputs
    /\ inputs' = inputs + 1
    /\ queue' = IF Translate(ev) = ""
                THEN queue
                ELSE Append(queue, Translate(ev))
    /\ exitSent' = (exitSent \/ Translate(ev) = "Exit")
    /\ resizeSnap' = IF ev = "resize" /\ rpc = "recv" /\ queue = << >>
                     THEN [set |-> TRUE, val |-> store.val,
                           draws |-> readyDraws,
                           writes |-> Cardinality(written)]
                     ELSE resizeSnap
    /\ IF ev = "resize" /\ fpc = "sleep" /\ cycle < MaxCycles
       THEN /\ fpc' = "fetch"
            /\ cycle' = cycle + 1
            /\ UNCHANGED << data, wpos, written, lastFetch, redrawsSent,
                            latest >>
       ELSE UNCHANGED fetchVars
    /\ UNCHANGED << get_data, lock, store, ipc >>
    /\ UNCHANGED mainVars

\* app.rs:91-101: event::read().unwrap() returned Ok(ev); the result of
\* send is discarded.
I_Event(ev) ==
    /\ ipc = "read"
    /\ ~Terminated
    /\ inputs < MaxInputs
    /\ inputs' = inputs + 1
    /\ queue' = IF Translate(ev) = ""
                THEN queue
                ELSE Append(queue, Translate(ev))
    /\ exitSent' = (exitSent \/ Translate(ev) = "Exit")
    /\ resizeSnap' = IF ev = "resize" /\ rpc = "recv" /\ queue = << >>
                     THEN [set |-> TRUE, val |-> store.val,
                           draws |-> readyDraws,
                           writes |-> Cardinality(written)]
                     ELSE resizeSnap
    /\ UNCHANGED << get_data, lock, store, ipc >>
    /\ UNCHANGED mainVars
    /\ UNCHANGED fetchVars

I_KeyQ == I_Event("key_q")
I_KeyOther == I_Event("key_other")
I_Resize == I_Event("resize")
I_Other == I_Event("mouse")

\* app.rs:91: event::read() returned Err; unwrap panics the worker thread,
\* which drops event_tx.
I_ReadErr ==
    /\ ipc = "read"
    /\ ~Terminated
    /\ inputs < MaxInputs
    /\ inputs' = inputs + 1
    /\ ipc' = "dead"
    /\ UNCHANGED << get_data, resizeSnap, lock, store, queue, exitSent >>
    /\ UNCHANGED mainVars
    /\ UNCHANGED fetchVars

\* ------------------------------------------------------ specification
RenderLoop ==
    \/ R_Lock
    \/ R_DrawReady
    \/ R_Recv
    \/ R_Drop
    \/ R_DrawLoading
    \/ R_TryRecv

FetchWorker ==
    \/ F_Fetch
    \/ F_FetchPanic
    \/ F_Lock
    \/ F_Replace
    \/ F_Unlock
    \/ F_Send
    \/ F_Sleep

InputWorker ==
    \/ I_KeyQ
    \/ I_KeyOther
    \/ I_Resize
    \/ I_Other
    \/ I_ReadErr

Next ==
    \/ R_Lock
    \/ R_DrawReady
    \/ R_Recv
    \/ R_Drop
    \/ R_DrawLoading
    \/ R_TryRecv
    \/ F_Fetch
    \/ F_FetchPanic
    \/ F_Lock
    \/ F_Replace
    \/ F_Unlock
    \/ F_Send
    \/ F_Sleep
    \/ I_KeyQ
    \/ I_KeyOther
    \/ I_Resize
    \/ I_Other
    \/ I_ReadErr

Spec == Init /\ [][Next]_vars

\* Scheduling: every thread that can take a step eventually takes one
\* (get_data returns, sleeps end, an unlocked Mutex is acquired).  Nothing
\* obliges the terminal to deliver another event, so the TUI event worker has
\* no fairness.
FairSpec ==
    /\ Spec
    /\ WF_vars(RenderLoop)
    /\ WF_vars(FetchWorker)

TypeOK ==
    /\ get_data \in GetDataFns
    /\ rpc \in {"lock", "draw_ready", "recv", "drop", "draw_loading",
                "try_recv", "returned_ok", "returned_err", "panic_draw",
                "panic_recv", "panic_try_recv"}
    /\ loading_counter \in 0..MaxLoading
    /\ lock \in {"free", "main", "fetch"}
    /\ fpc \in {"fetch", "lock", "replace", "send", "sleep", "dead"}
    /\ cycle \in 1..MaxCycles
    /\ wpos \in 0..NumFields
    /\ ipc \in {"read", "dead"}
    /\ inputs \in 0..MaxInputs
    /\ Len(queue) <= MaxInputs + MaxCycles

\* The positions of run_app at which the guard `data` is alive, and the
\* position of the worker at which its temporary guard is alive.
MainGuardAlive == rpc \in {"draw_ready", "recv", "drop"}
FetchGuardAlive == fpc = "replace"

\* The program as main.rs:93 wires it: run_app(.., get_weather_data).
AsWired == get_data = "get_weather_data"

\* A whole value the worker has finished writing.
Whole(v) == v \in written

\* ------------------------------------------------------------- claims

\* C1: the Render Loop holds the store's lock only for the read itself,
\* never while the render collaborator is invoked and never while it waits
\* on the channel, in Ready as well as in Loading.
C1_LockOnlyForRead ==
    (AsWired /\ lock = "main")
        => rpc \notin {"draw_ready", "recv", "draw_loading", "try_recv"}

\* C2: every write() the Fetch Worker attempts eventually completes, without
\* any event having to arrive on the channel (as long as run_app runs).
C2_WriteCompletes ==
    (AsWired /\ fpc = "lock") ~> (fpc # "lock" \/ Terminated)

\* C3: reader and writer are never inside the store's critical section at
\* the same time, and what the reader finds under the lock and passes to
\* render is absent or the whole value of a completed write().
C3_NoTornRead ==
    /\ ~(MainGuardAlive /\ FetchGuardAlive)
    /\ MainGuardAlive => lock = "main"
    /\ FetchGuardAlive => lock = "fetch"
    /\ MainGuardAlive => store = NoneStore \/ (store.some /\ Whole(store.val))
    /\ lastRender.kind = "ready" => Whole(lastRender.val)

\* C3 witness: the reader waited out a write in progress and has rendered
\* the second value written.
C3_Witness ==
    /\ Cardinality(written) = 2
    /\ cycle = 2
    /\ lastRender.kind = "ready"
    /\ lastRender.val = data
    /\ readyDraws >= 2

\* C4: starting from an absent store, render is never invoked with a
\* snapshot before a write() has completed, and the snapshot passed is one
\* that was written.
C4_NoReadyBeforeWrite ==
    /\ rpc \in {"draw_ready", "recv"} => written # {}
    /\ readyDraws > 0 => written # {}
    /\ lastRender.kind = "ready" => lastRender.val \in written

\* C4 witness: Loading passes happened first, then a render in Ready.
C4_Witness ==
    /\ loading_counter > 0
    /\ lastRender.kind = "ready"
    /\ readyDraws = 1
    /\ Cardinality(written) = 1

\* C5: once the first write() has completed, the Render Loop invokes at most
\* one more Loading render, and then renders in Ready or terminates; the
\* transition does not wait for the Redraw event.
C5_ReadyWithinOnePass ==
    /\ [](loadingSince <= 1)
    /\ (written # {}) ~> (readyDraws > 0 \/ Terminated)

\* C5 witness: Ready was rendered after one more Loading render, while the
\* worker has not even sent the Redraw of its first write.
C5_Witness ==
    /\ loadingSince = 1
    /\ lastRender.kind = "ready"
    /\ cycle = 1
    /\ fpc = "send"
    /\ queue = << >>

\* C6: in Ready, recv() takes the events in FIFO order; a dequeued Redraw
\* leads to the next render, the dequeued Exit returns success at once, and
\* after that nothing is rendered and nothing more is dequeued.
C6_ExitInReady ==
    [][ /\ (rpc = "recv" /\ rpc' # rpc /\ queue # << >>) =>
              /\ queue' = Tail(queue)
              /\ Head(queue) = "Exit" => rpc' = "returned_ok"
              /\ Head(queue) = "Redraw" => rpc' = "lock"
        /\ (rpc = "lock" /\ rpc' # rpc /\ readyDraws > 0) => rpc' = "draw_ready"
        /\ (rpc = "draw_ready" /\ rpc' # rpc) => readyDraws' = readyDraws + 1
        /\ Terminated => UNCHANGED << rpc, queue, readyDraws, lastRender >>
      ]_vars

\* C6 witness: Exit was consumed in Ready after a Redraw ahead of it had been
\* rendered, and an event queued behind it is still in the channel.
C6_Witness ==
    /\ rpc = "returned_ok"
    /\ lastRender.kind = "ready"
    /\ readyDraws >= 2
    /\ exitSent
    /\ queue # << >>

\* C7: when the poll of a Loading pass dequeues Exit, run_app returns success
\* at once; no render in Ready has occurred, and the poll never waits.
C7_ExitInLoading ==
    /\ [][ (rpc = "try_recv" /\ rpc' # rpc /\ queue # << >>
             /\ Head(queue) = "Exit") =>
              /\ rpc' = "returned_ok"
              /\ queue' = Tail(queue)
              /\ readyDraws' = 0
              /\ lastRender'.kind = "loading" ]_vars
    /\ [](rpc = "try_recv" => ENABLED RenderLoop)

\* C7 witness: run_app returned success from Loading before any write().
C7_Witness ==
    /\ rpc = "returned_ok"
    /\ written = {}
    /\ store = NoneStore
    /\ readyDraws = 0
    /\ lastRender.kind = "loading"

\* C8: after the Input Worker has emitted Exit, no later input makes it send
\* anything on the channel.
C8_ExitIsLastEvent ==
    [][ (AsWired /\ exitSent /\ inputs' # inputs) => queue' = queue ]_vars

\* C9: after a failure of the Input Worker's read, the Render Loop ends with
\* a fatal outcome even though the Fetch Worker is still alive.
C9_InputFailureFatal ==
    (AsWired /\ ipc = "dead") ~> Fatal

\* C10: a recv() or try_recv() that finds the channel empty with all senders
\* gone ends the loop with a panic, never like an empty poll or a Redraw, and
\* the loop does not stay waiting on such a channel.
C10_ClosedChannelFatal ==
    /\ [][ (rpc \in {"recv", "try_recv"} /\ rpc' # rpc /\ queue = << >>
             /\ Disconnected) =>
              rpc' = IF rpc = "recv" THEN "panic_recv" ELSE "panic_try_recv"
          ]_vars
    /\ (rpc \in {"recv", "try_recv"} /\ queue = << >> /\ Disconnected)
          ~> Panicked

\* C10 witness: both workers are gone and the recv() of a Ready pass panicked.
C10_Witness ==
    /\ rpc = "panic_recv"
    /\ Disconnected
    /\ readyDraws >= 1

\* The snapshot of a cycle whose requests all failed: every member is its
\* Default::default().
Placeholder(c) == << DefaultObs(c), DefaultVal, DefaultVal, DefaultVal >>

\* C11: with get_weather_data (substitute default), when the first fetch
\* fails the worker stays alive and writes the placeholder snapshot, and the
\* Render Loop reaches Ready and renders it instead of staying in Loading.
C11_DefaultReachesReady ==
    /\ [](  (AsWired /\ cycle = 1 /\ lastFetch = AllFail) =>
              /\ fpc \in {"lock", "replace", "send", "sleep"}
              /\ data = Placeholder(1)
              /\ fpc \in {"send", "sleep"} =>
                    store = [some |-> TRUE, val |-> Placeholder(1)]
              /\ readyDraws > 0 => lastRender.val = Placeholder(1) )
    /\ (AsWired /\ cycle = 1 /\ lastFetch = AllFail)
          ~> (readyDraws > 0 \/ Terminated)

\* C11 witness: the first fetch failed and the placeholder was rendered.
C11_Witness ==
    /\ AsWired
    /\ cycle = 1
    /\ lastFetch = AllFail
    /\ lastRender = [kind |-> "ready", val |-> Placeholder(1)]
    /\ rpc = "recv"

\* C12: with get_weather_data, every cycle the worker gets through, failed or
\* not, has made exactly one write() and then sent exactly one Redraw, the
\* write() first; a failure neither ends the worker nor skips either step.
C12_OneWriteOneRedrawPerCycle ==
    AsWired =>
      /\ fpc # "dead"
      /\ Cardinality(written)
            = (cycle - 1) + (IF fpc \in {"send", "sleep"} THEN 1 ELSE 0)
      /\ redrawsSent = (cycle - 1) + (IF fpc = "sleep" THEN 1 ELSE 0)
      /\ fpc \in {"send", "sleep"} => (latest = data /\ data \in written)
      /\ fpc \in {"lock", "replace", "send", "sleep"} =>
            data = get_weather_data(cycle, lastFetch)

\* C12 witness: two failed cycles, each with its write() and its Redraw.
C12_Witness ==
    /\ AsWired
    /\ cycle = 2
    /\ fpc = "sleep"
    /\ written = {Placeholder(1), Placeholder(2)}
    /\ redrawsSent = 2

\* C13: in Ready every Redraw taken by recv() is answered by exactly one
\* more render, which reads the cell again; two renders with no write()
\* completed between them are given the same snapshot.
C13_OneRenderPerRedraw ==
    /\ [](readyDraws = 0 => redrawsRecv = 0)
    /\ [](readyDraws > 0 =>
            readyDraws = redrawsRecv
                           + (IF rpc \in {"lock", "draw_ready"} THEN 0 ELSE 1))
    /\ [][ (rpc = "draw_ready" /\ rpc' # rpc) =>
              /\ lastRender' = [kind |-> "ready", val |-> store.val]
              /\ store' = store
              /\ (lastRender.kind = "ready" /\ lastRender.val = latest)
                    => lastRender'.val = lastRender.val ]_vars

\* C13 witness: after the first render two Redraws were taken and answered
\* by two more renders of the same, only snapshot.
C13_Witness ==
    /\ rpc = "recv"
    /\ readyDraws = 3
    /\ redrawsRecv = 2
    /\ Cardinality(written) = 1
    /\ lastRender.val = latest

\* C14 as stated: the render that answers a resize received in Ready is
\* given the snapshot that was in the cell when the resize arrived.
C14_ResizeSameSnapshot ==
    [][ (AsWired /\ rpc = "draw_ready" /\ rpc' # rpc /\ resizeSnap.set) =>
          lastRender'.val = resizeSnap.val ]_vars

\* C14 amended: a resize received while the loop waits in recv() changes
\* neither the cell nor the Fetch Worker and queues exactly one Redraw;
\* the render that answers it is the one next render, given the snapshot
\* of the time of the resize unless a write() completed in between, in
\* which case it is given the newest one.
C14_ResizeOneRender ==
    /\ [][ (~resizeSnap.set /\ resizeSnap'.set) =>
              /\ rpc = "recv"
              /\ store.some
              /\ queue' = << "Redraw" >>
              /\ UNCHANGED << store, lock >>
              /\ UNCHANGED fetchVars
              /\ UNCHANGED mainVars ]_vars
    /\ [][ (rpc = "draw_ready" /\ rpc' # rpc /\ resizeSnap.set) =>
              /\ readyDraws' = resizeSnap.draws + 1
              /\ Cardinality(written) = resizeSnap.writes
                    => lastRender'.val = resizeSnap.val
              /\ Cardinality(written) # resizeSnap.writes
                    => lastRender'.val = latest ]_vars

\* C14 witness: the loop has taken two Redraws of which the Fetch Worker
\* sent one, so the other came from a resize, and has answered both; the
\* one snapshot written was rendered each time.
C14_Witness ==
    /\ rpc = "recv"
    /\ readyDraws = 3
    /\ redrawsRecv = 2
    /\ redrawsSent = 1
    /\ fpc = "sleep"
    /\ inputs = 1
    /\ queue = << >>
    /\ ~exitSent
    /\ lastRender.val = latest

C16_KeepsRefreshing ==
    \A c \in 1..MaxCycles :
        (AsWired /\ cycle = c /\ fpc = "lock") ~>
            \/ lastRender.kind = "ready" /\ lastRender.val[1].at >= c
            \/ Terminated
            \/ inputs > 0

\* C17: in a Loading pass the lock is held only at the absent-check and is
\* released, by the loop's very next step, before the loading indicator is
\* drawn and the channel polled; the first write() eventually completes.
C17_LoadingReleasesLock ==
    /\ [](rpc \in {"draw_loading", "try_recv"} => lock # "main")
    /\ []((lock = "main" /\ ~store.some) => (rpc = "drop" /\ ENABLED R_Drop))
    /\ [][ (rpc = "drop" /\ rpc' # rpc) =>
              (lock' = "free" /\ rpc' = "draw_loading") ]_vars
    /\ (AsWired /\ cycle = 1 /\ fpc = "lock")
          ~> (written # {} \/ Terminated)

\* C17 witness: the first write() has completed while the loop was in the
\* middle of a Loading pass, after the absent-check.
C17_Witness ==
    /\ written # {}
    /\ cycle = 1
    /\ fpc \in {"send", "sleep"}
    /\ readyDraws = 0
    /\ loading_counter >= 1
    /\ rpc \in {"draw_loading", "try_recv"}

\* C18: the cell starts absent; only a replace() of the web request worker,
\* made under the lock, changes it; outside such a replace it holds nothing
\* or one whole written value; once present it is never absent again.
C18_StoreLifecycle ==
    /\ store = NoneStore
    /\ [][ store' # store =>
              /\ fpc = "replace"
              /\ lock = "fetch"
              /\ store'.some
              /\ UNCHANGED mainVars
              /\ UNCHANGED inputVars ]_vars
    /\ [][ store.some => store'.some ]_vars
    /\ [](lock # "fetch" =>
            \/ store = NoneStore /\ written = {}
            \/ store = [some |-> TRUE, val |-> latest] /\ Whole(latest))

\* C18 witness: the cell was absent, then present, then replaced: the
\* second write() has completed and the cell holds its value.
C18_Witness ==
    /\ Cardinality(written) = 2
    /\ cycle = 2
    /\ store = [some |-> TRUE, val |-> data]
    /\ lock = "free"
    /\ readyDraws >= 1

\* C19: every render in Ready is given the value of the most recent
\* write() that completed before the loop's read, never an older one.
C19_RendersLatest ==
    /\ [](\A v \in written : v[1].at <= latest[1].at)
    /\ [][ (rpc = "draw_ready" /\ rpc' # rpc) =>
              /\ written # {}
              /\ lastRender' = [kind |-> "ready", val |-> latest]
              /\ lastRender'.val[1].at = Cardinality(written) ]_vars

\* C19 witness: two writes have completed and the latest render, not the
\* first in Ready, was given the second one.
C19_Witness ==
    /\ readyDraws >= 2
    /\ Cardinality(written) = 2
    /\ lastRender = [kind |-> "ready", val |-> latest]
    /\ latest[1].at = 2

\* C20: the loop only moves forward.  After its first render in Ready it
\* never again takes the Loading arm (drop, loading indicator, try_recv),
\* the cell stays present, and a finished run_app stays finished; before
\* that render it has drawn nothing but the loading indicator.
C20_ForwardOnly ==
    /\ [](readyDraws > 0 =>
            /\ rpc \notin {"drop", "draw_loading", "try_recv",
                            "panic_try_recv"}
            /\ lastRender.kind = "ready"
            /\ store.some)
    /\ [](readyDraws = 0 => lastRender.kind \in {"none", "loading"})
    /\ [][ readyDraws' >= readyDraws ]_vars
    /\ [][ Terminated => UNCHANGED mainVars ]_vars

\* C20 witness: Loading passes, then a render in Ready, then another pass
\* in Ready after a second write().
C20_Witness ==
    /\ loading_counter >= 1
    /\ readyDraws >= 2
    /\ Cardinality(written) = 2
    /\ rpc = "recv"

\* C21: the TUI event worker translates by a fixed table: a press of q
\* appends exactly one Exit to the channel, a resize exactly one Redraw,
\* any other event nothing; no step of the worker changes the cell or
\* takes its lock, and the worker never waits for the lock.
C21_InputTable ==
    /\ [][ I_KeyQ => queue' = Append(queue, "Exit") ]_vars
    /\ [][ I_Resize => queue' = Append(queue, "Redraw") ]_vars
    /\ [][ (I_KeyOther \/ I_Other) => queue' = queue ]_vars
    /\ [][ InputWorker =>
              /\ UNCHANGED << store, lock >>
              /\ UNCHANGED fetchVars
              /\ UNCHANGED mainVars ]_vars
    /\ []((ipc = "read" /\ inputs < MaxInputs /\ ~Terminated) =>
            (ENABLED I_KeyQ /\ ENABLED I_Resize /\ ENABLED I_KeyOther))

\* C21 witness: a resize and then a press of q were read while the cell
\* was absent and the web request worker had sent nothing: the channel
\* holds exactly the Redraw and the Exit, in that order.
C21_Witness ==
    /\ inputs = 2
    /\ redrawsSent = 0
    /\ store = NoneStore
    /\ queue = << "Redraw", "Exit" >>
    /\ exitSent

\* C22: loading_counter starts at 0; a Loading render is given its value
\* and, having succeeded, adds exactly one to it, so the k-th render gets
\* tick k-1; no other step changes it.  Which arm a pass takes and how
\* the poll ends are functions of the cell and the channel alone.
C22_LoadingCounter ==
    /\ loading_counter = 0
    /\ [][ (rpc = "draw_loading" /\ rpc' # rpc) =>
              /\ lastRender' = [kind |-> "loading", tick |-> loading_counter]
              /\ loading_counter' =
                    loading_counter + (IF rpc' = "try_recv" THEN 1 ELSE 0)
              /\ rpc' \in {"try_recv", "returned_err"} ]_vars
    /\ [][ (rpc # "draw_loading" \/ rpc' = rpc) =>
              loading_counter' = loading_counter ]_vars
    /\ [](lastRender.kind = "loading" =>
            lastRender.tick + 1 =
              loading_counter + (IF rpc = "returned_err" THEN 1 ELSE 0))
    /\ [][ (rpc = "lock" /\ rpc' # rpc) =>
              rpc' = IF store.some THEN "draw_ready" ELSE "drop" ]_vars
    /\ [][ (rpc = "try_recv" /\ rpc' # rpc) =>
              rpc' = IF queue # << >>
                     THEN (IF Head(queue) = "Exit"
                           THEN "returned_ok" ELSE "lock")
                     ELSE (IF Disconnected
                           THEN "panic_try_recv" ELSE "lock") ]_vars

\* C22 witness: the second Loading render was given tick 1 and the counter
\* now reads 2.
C22_Witness ==
    /\ lastRender = [kind |-> "loading", tick |-> 1]
    /\ loading_counter = 2
    /\ rpc = "try_recv"
====
